---------------------------- MODULE Spec2Model ----------------------------
(***************************************************************************)
(* CompoWay/F poll driver for an Omron K3HB load display.                  *)
(*                                                                         *)
(* The repository holds two scripts with the same frame codec and the same *)
(* poll loop: OmronV3.py (decodes a signed 16-bit value and stores it in   *)
(* Redis) and Omron_TestScript_v2.py (prints the unsigned value).  The     *)
(* variable script selects which one runs.  Characters and bytes are their *)
(* integer codes; a Python str or bytes value is a sequence of codes.      *)
(***************************************************************************)
EXTENDS Integers, Sequences, FiniteSets, TLC

VARIABLES
    script,       \* "V3" (OmronV3.py) or "V2" (Omron_TestScript_v2.py)
    pc,           \* "loop" (top of while True), "finally", "done"
    exit_cause,   \* exception that left the loop, "none" while it runs
    is_open,      \* ser is open
    in_buf,       \* bytes waiting in ser's input buffer (ser.in_waiting = Len)
    frame,        \* the last frame handed to ser.write, <<>> before the first
    outstanding,  \* frames written since the driver last read the link
    cycle         \* what the last loop iteration computed (its locals)

vars == <<script, pc, exit_cause, is_open, in_buf, frame, outstanding, cycle>>

---------------------------------------------------------------------------
(* Bounds of the model.                                                    *)

\* Most frames written without a read in between that the model follows.
MaxOutstanding == 2

\* Most bytes to which further bytes may fill a buffer that is not empty.
MaxRx == 38

---------------------------------------------------------------------------
(* Frame components (OmronV3.py 90-103, Omron_TestScript_v2.py 71-84).     *)

STX == 2
ETX == 3
Node == <<48, 49>>                       \* "01"
SubAddress == <<48, 48>>                 \* "00"
ServiceID == <<48>>                      \* "0"
MRC == <<48, 49>>                        \* "01"
SRC == <<48, 49>>                        \* "01"
Variable_Type == <<67, 48>>              \* "C0"
Address == <<48, 48, 48, 50>>            \* "0002"
Bit_Position == <<48, 48>>               \* "00"
Number_of_Elements == <<48, 48, 48, 49>> \* "0001"
CommandText == Variable_Type \o Address \o Bit_Position \o Number_of_Elements

data_ascii_noServiceID == Node \o SubAddress \o MRC \o SRC \o CommandText

data_ascii == Node \o SubAddress \o ServiceID \o MRC \o SRC \o CommandText

---------------------------------------------------------------------------
(* calculate_bcc: bcc = 0; for byte in data: bcc ^= byte.                  *)

RECURSIVE BitXor(_, _)
BitXor(a, b) ==
    IF a = 0 THEN b
    ELSE IF b = 0 THEN a
    ELSE (((a % 2) + (b % 2)) % 2) + (2 * BitXor(a \div 2, b \div 2))

RECURSIVE calculate_bcc(_)
calculate_bcc(data) ==
    IF data = <<>> THEN 0
    ELSE BitXor(calculate_bcc(SubSeq(data, 1, Len(data) - 1)), data[Len(data)])

\* The frame with the BCC taken over the whole frame, STX included.
BuildFrame_bccWithSTX(command) ==
    LET f == <<STX>> \o command \o <<ETX>>
    IN  f \o <<calculate_bcc(f)>>

\* The main loop's frame construction: STX, the ASCII data, ETX, then the
\* BCC of frame[1:] (everything after STX).
BuildFrame(command) ==
    LET f == <<STX>> \o command \o <<ETX>>
    IN  f \o <<calculate_bcc(Tail(f))>>

---------------------------------------------------------------------------
(* Results of the codec functions: a value, or the ValueError raised.      *)

Ok(v) == [ok |-> TRUE, value |-> v, error |-> "none"]
Raise(kind) == [ok |-> FALSE, value |-> <<>>, error |-> kind]

\* Position of the first occurrence of c in s (s.index(c) + 1), 0 if none.
IndexOf(s, c) ==
    IF \E i \in 1..Len(s) : s[i] = c
    THEN CHOOSE i \in 1..Len(s) :
             s[i] = c /\ \A j \in 1..(i - 1) : s[j] # c
    ELSE 0

\* The cleaned frame cut before the first ETX instead of after it.
validate_and_clean_response_cutBeforeETX(response) ==
    IF response = <<>> \/ response[1] # STX THEN Raise("MissingSTX")
    ELSE IF IndexOf(response, ETX) = 0 THEN Raise("MissingETX")
    ELSE Ok(SubSeq(response, 1, IndexOf(response, ETX) - 1))

\* The two checks in the other order.
validate_and_clean_response_ETXfirst(response) ==
    IF IndexOf(response, ETX) = 0 THEN Raise("MissingETX")
    ELSE IF response = <<>> \/ response[1] # STX THEN Raise("MissingSTX")
    ELSE Ok(SubSeq(response, 1, IndexOf(response, ETX)))

validate_and_clean_response(response) ==
    IF response = <<>> \/ response[1] # STX THEN Raise("MissingSTX")
    ELSE IF IndexOf(response, ETX) = 0 THEN Raise("MissingETX")
    ELSE Ok(SubSeq(response, 1, IndexOf(response, ETX)))

\* response[1:-1]
frame_body(response) == SubSeq(response, 2, Len(response) - 1)

\* The minimum length taken to be the header length.
extract_data_section_min13(response) ==
    IF Len(frame_body(response)) < 13 THEN Raise("FrameTooShort")
    ELSE Ok(SubSeq(frame_body(response), 14, Len(frame_body(response))))

extract_data_section(response) ==
    IF Len(frame_body(response)) < 16 THEN Raise("FrameTooShort")
    ELSE Ok(SubSeq(frame_body(response), 14, Len(frame_body(response))))

---------------------------------------------------------------------------
(* int(hex_value, 16) on an ASCII str, as CPython parses it: surrounding   *)
(* whitespace, an optional sign, an optional 0x or 0X prefix, then hex     *)
(* digits with single underscores between them.                            *)

IsSpace(c) == c \in {9, 10, 11, 12, 13, 32}

\* The digit's value, 16 for a character that is no base-16 digit.
DigitValue(c) ==
    IF c \in 48..57 THEN c - 48
    ELSE IF c \in 65..70 THEN c - 55
    ELSE IF c \in 97..102 THEN c - 87
    ELSE 16

\* s without its leading whitespace.
LStrip(s) ==
    IF \A i \in 1..Len(s) : IsSpace(s[i]) THEN <<>>
    ELSE SubSeq(s, CHOOSE i \in 1..Len(s) :
                       ~IsSpace(s[i]) /\ \A j \in 1..(i - 1) : IsSpace(s[j]),
                Len(s))

\* s without its trailing whitespace.
RStrip(s) ==
    IF \A i \in 1..Len(s) : IsSpace(s[i]) THEN <<>>
    ELSE SubSeq(s, 1, CHOOSE i \in 1..Len(s) :
                          ~IsSpace(s[i])
                              /\ \A j \in (i + 1)..Len(s) : IsSpace(s[j]))

HasSign(s) == s # <<>> /\ s[1] \in {43, 45}

HasPrefix(s) == Len(s) >= 2 /\ s[1] = 48 /\ s[2] \in {88, 120}

\* After the prefix one underscore is allowed.
DropPrefix(s) ==
    IF HasPrefix(s)
    THEN IF Len(s) >= 3 /\ s[3] = 95 THEN SubSeq(s, 4, Len(s))
         ELSE SubSeq(s, 3, Len(s))
    ELSE s

ValidDigits(d) ==
    /\ d # <<>>
    /\ d[1] # 95
    /\ d[Len(d)] # 95
    /\ \A i \in 1..Len(d) : d[i] = 95 \/ DigitValue(d[i]) < 16
    /\ \A i \in 1..(Len(d) - 1) : ~(d[i] = 95 /\ d[i + 1] = 95)

RECURSIVE DigitsValue(_)
DigitsValue(d) ==
    IF d = <<>> THEN 0
    ELSE IF d[Len(d)] = 95 THEN DigitsValue(SubSeq(d, 1, Len(d) - 1))
    ELSE 16 * DigitsValue(SubSeq(d, 1, Len(d) - 1)) + DigitValue(d[Len(d)])

\* The digits of the literal: what follows the sign and the prefix.
Digits(hex_value) ==
    LET t == RStrip(LStrip(hex_value))
    IN  DropPrefix(IF HasSign(t) THEN Tail(t) ELSE t)

IsNegative(hex_value) ==
    LET t == RStrip(LStrip(hex_value))
    IN  HasSign(t) /\ t[1] = 45

int16(hex_value) ==
    IF ~ValidDigits(Digits(hex_value)) THEN Raise("NotHex")
    ELSE IF IsNegative(hex_value) THEN Ok(0 - DigitsValue(Digits(hex_value)))
    ELSE Ok(DigitsValue(Digits(hex_value)))

\* OmronV3.py: the two's-complement correction over bit_length bits.
decode_signed_value(hex_value, bit_length) ==
    LET p == int16(hex_value)
    IN  IF ~p.ok THEN p
        ELSE IF p.value >= 2 ^ (bit_length - 1)
             THEN Ok(p.value - 2 ^ bit_length)
             ELSE p

\* value / 10 as Python's float shows it: a sign, the whole part and one
\* fractional digit (0 / 10 is 0.0, never -0.0).
DivTen(value) ==
    LET a == IF value < 0 THEN 0 - value ELSE value
    IN  [neg |-> value < 0, whole |-> a \div 10, tenths |-> a % 10]

\* int / int raises OverflowError when the quotient, rounded to the nearest
\* float, is 2^1024 or more.  For a divisor of 10 that is a magnitude of
\* 0x9FFFFFFFFFFFFD8 * 16^242 or more: 257 hex digits.  In V3 a value of
\* 2^15 or more was lowered by 2^16 before the division.
DropLeadingZeros(v) ==
    IF \A i \in 1..Len(v) : v[i] = 0 THEN <<>>
    ELSE SubSeq(v, CHOOSE i \in 1..Len(v) :
                       v[i] # 0 /\ \A j \in 1..(i - 1) : v[j] = 0,
                Len(v))

Significant(hex_value) ==
    LET d == SelectSeq(Digits(hex_value), LAMBDA c : c # 95)
    IN  DropLeadingZeros([i \in 1..Len(d) |-> DigitValue(d[i])])

OverflowThreshold ==
    <<9>> \o [i \in 1..12 |-> 15] \o <<13, 8>> \o [i \in 1..242 |-> 0]

OverflowThresholdCorrected ==
    <<9>> \o [i \in 1..12 |-> 15] \o <<13, 8>> \o [i \in 1..237 |-> 0]
        \o <<1, 0, 0, 0, 0>>

\* a >= b for digit sequences of the same length.
DigitsGE(a, b) ==
    \/ a = b
    \/ \E i \in 1..Len(a) : a[i] > b[i] /\ \A j \in 1..(i - 1) : a[j] = b[j]

\* Whether the division by 10 of the value parsed from hex_value raises.
TrueDivOverflows(s, hex_value) ==
    LET sig == Significant(hex_value)
        thr == IF s = "V3" /\ ~IsNegative(hex_value)
               THEN OverflowThresholdCorrected
               ELSE OverflowThreshold
    IN  \/ Len(sig) > Len(thr)
        \/ Len(sig) = Len(thr) /\ DigitsGE(sig, thr)

RECURSIVE DecimalDigits(_)
DecimalDigits(n) ==
    IF n < 10 THEN <<48 + n>>
    ELSE DecimalDigits(n \div 10) \o <<48 + (n % 10)>>

\* "{:.6f}".format(display_value)
Format6f(display_value) ==
    (IF display_value.neg THEN <<45>> ELSE <<>>)
        \o DecimalDigits(display_value.whole)
        \o <<46, 48 + display_value.tenths, 48, 48, 48, 48, 48>>

\* bytes.decode('ascii', errors='ignore'): bytes of 128 and above are dropped.
decode_ascii_ignore(bytes) == SelectSeq(bytes, LAMBDA b : b < 128)

---------------------------------------------------------------------------
(* The response branch of the main loop: validate, extract, decode, scale. *)

NoDisplay == [neg |-> FALSE, whole |-> 0, tenths |-> 0]

\* The locals of an iteration that read nothing (before the first, or the
\* request branch).
IdleCycle(branch) ==
    [branch |-> branch, raw_response |-> <<>>, cleaned_response |-> <<>>,
     data_section |-> <<>>, parsed |-> FALSE, error |-> "none",
     decoded_value |-> 0, display_value |-> NoDisplay,
     published |-> FALSE, load_cell |-> <<>>, interrupted |-> FALSE]

\* V3 decodes a signed 16-bit value; V2 divides the parsed value directly.
ParseValue(s, data_section) ==
    IF s = "V3" THEN decode_signed_value(data_section, 16)
    ELSE int16(data_section)

\* The iteration's locals after the try block ran on the bytes read.  When
\* the division raises, the integer parsed (of 257 hex digits or more) is
\* not recorded.
ReadCycle(s, bytes) ==
    LET raw == decode_ascii_ignore(bytes)
        v == validate_and_clean_response(raw)
        e == IF v.ok THEN extract_data_section(v.value) ELSE v
        p == IF e.ok THEN ParseValue(s, e.value) ELSE e
        base == [IdleCycle("read") EXCEPT !.raw_response = raw]
    IN  IF ~v.ok THEN [base EXCEPT !.error = v.error]
        ELSE IF ~e.ok
        THEN [base EXCEPT !.cleaned_response = v.value, !.error = e.error]
        ELSE IF ~ValidDigits(Digits(e.value))
        THEN [base EXCEPT !.cleaned_response = v.value,
                          !.data_section = e.value,
                          !.parsed = TRUE, !.error = "NotHex"]
        ELSE IF TrueDivOverflows(s, e.value)
        THEN [base EXCEPT !.cleaned_response = v.value,
                          !.data_section = e.value,
                          !.parsed = TRUE, !.error = "OverflowError"]
        ELSE [base EXCEPT !.cleaned_response = v.value,
                          !.data_section = e.value,
                          !.parsed = TRUE,
                          !.decoded_value = p.value,
                          !.display_value = DivTen(p.value),
                          !.published = TRUE,
                          !.load_cell = IF s = "V3"
                                        THEN Format6f(DivTen(p.value))
                                        ELSE <<>>]

\* The functions of the codec and int() raise ValueError; the division
\* raises OverflowError.
ExceptionClass(kind) ==
    IF kind \in {"MissingSTX", "MissingETX", "FrameTooShort", "NotHex"}
    THEN "ValueError"
    ELSE kind

\* except ValueError as e
Caught(kind) == ExceptionClass(kind) = "ValueError"

\* The points of the response branch at which KeyboardInterrupt can be
\* raised in the iteration c of script s, each named by what has completed:
\*   0  ser.read took the bytes, raw_response is not assigned
\*   1  raw_response is assigned
\*   2  cleaned_response is assigned
\*   3  data_section is assigned
\*   4  int(..., 16) returned, nothing is assigned from it
\*   5  decoded_value is assigned (OmronV3.py only)
\*   6  display_value is assigned, the sink has nothing
\*   7  the try block ended (the sink took the reading, or the ValueError
\*      was caught) and the sleep has not
\* When the division raises, the integer parsed is not recorded and point 5
\* is not followed.
Points(s, c) ==
    { k \in 0..7 :
        /\ k \in 2..6 => c.cleaned_response # <<>>
        /\ k \in 3..6 => c.data_section # <<>>
        /\ k \in 4..6 => c.error # "NotHex"
        /\ k \in 5..6 => c.error = "none"
        /\ k = 5 => s = "V3"
        /\ k = 7 => (c.error = "none" \/ ExceptionClass(c.error) = "ValueError") }

\* The locals assigned when KeyboardInterrupt is raised at point k.
InterruptedCycle(c, k) ==
    IF k = 7 THEN [c EXCEPT !.interrupted = TRUE]
    ELSE [IdleCycle("read") EXCEPT
            !.interrupted = TRUE,
            !.raw_response = IF k >= 1 THEN c.raw_response ELSE <<>>,
            !.cleaned_response = IF k >= 2 THEN c.cleaned_response ELSE <<>>,
            !.data_section = IF k >= 3 THEN c.data_section ELSE <<>>,
            !.parsed = (k >= 4),
            !.decoded_value = IF k >= 5 THEN c.decoded_value ELSE 0,
            !.display_value = IF k >= 6 THEN c.display_value ELSE NoDisplay]

---------------------------------------------------------------------------
(* The device's answers: what it may put in the input buffer.              *)

\* 13 characters before the data section.
Header == <<48, 49, 48, 48, 48, 48, 48, 49, 48, 49, 48, 48, 48>>

DataSections ==
    { <<48, 48, 48, 50>>,        \* "0002"
      <<70, 70, 70, 54>>,        \* "FFF6"
      <<55, 70, 70, 70>>,        \* "7FFF"
      <<56, 48, 48, 48>>,        \* "8000"
      <<48, 48, 48, 48>>,        \* "0000"
      <<70, 70, 70, 70>>,        \* "FFFF"
      <<102, 102, 102, 54>>,     \* "fff6"
      <<48, 70, 70>>,            \* "0FF"
      <<48, 70>>,                \* "0F"
      <<71, 71>>,                \* "GG"
      <<>>,                      \* ""
      <<70, 70, 70, 70, 70>>,    \* "FFFFF"
      <<49, 70, 70, 70, 54>>,    \* "1FFF6"
      <<48, 48, 71, 49>>,        \* "00G1"
      <<49, 50, 46, 53>>,        \* "12.5"
      <<45, 48, 48, 49>>,        \* "-001"
      <<45, 70, 70, 70, 70>>,    \* "-FFFF"
      <<43, 48, 65>>,            \* "+0A"
      <<32, 48, 65, 32>>,        \* " 0A "
      <<48, 120, 49, 70>>,       \* "0x1F"
      <<49, 95, 70>>,            \* "1_F"
      <<49, 95, 95, 70>>,        \* "1__F"
      <<95, 49, 70>>,            \* "_1F"
      <<48, 120, 95>>,           \* "0x_"
      <<48, 48, 2, 48, 48>>,     \* "00", STX, "00"
      [i \in 1..258 |-> 70] }    \* "F" 258 times

Reading == <<70, 70, 70, 54>>

WellFormed(d) == <<STX>> \o Header \o d \o <<ETX>>

Responses ==
    { WellFormed(d) : d \in DataSections }
    \cup { WellFormed(Reading) \o <<69>>,          \* followed by a BCC
           WellFormed(Reading) \o <<ETX, 71>>,     \* followed by ETX and noise
           <<255>> \o WellFormed(Reading),         \* after a byte of 128 up
           <<71>> \o WellFormed(Reading),          \* after an ASCII byte
           <<STX>> \o WellFormed(Reading),         \* STX twice
           <<ETX>> \o WellFormed(Reading),         \* ETX first
           <<STX>> \o Header \o Reading,           \* no ETX
           Header \o Reading,                      \* neither STX nor ETX
           Header \o Reading \o <<ETX>>,           \* no STX
           <<128>>,                                \* decodes to ""
           <<71>>,
           <<STX>>,
           <<STX, ETX>> }

\* What the device transmits in one go: an answer, an answer followed by
\* the first byte of the next, two answers back to back, two answers with
\* their BCC bytes.
Bursts ==
    Responses
    \cup { WellFormed(Reading) \o <<STX>>,
           WellFormed(Reading) \o WellFormed(<<48, 48, 48, 50>>),
           WellFormed(Reading) \o <<69>>
               \o WellFormed(<<48, 48, 48, 50>>) \o <<49>> }

\* The places at which a burst may be cut by the polls and by the link:
\* after its first byte, inside the header, after 19 and after 20 bytes.
Cuts == {1, 11, 19, 20}

CutPoints(b) == {0, Len(b)} \cup {k \in Cuts : k < Len(b)}

\* The bytes that may arrive or wait together: a burst, or the part of a
\* burst between two of its cuts.
Pieces ==
    UNION { { SubSeq(b, w[1] + 1, w[2]) :
                w \in {v \in CutPoints(b) \X CutPoints(b) : v[1] < v[2]} } :
            b \in Bursts }

---------------------------------------------------------------------------
(* The main program loop.                                                  *)

Init ==
    /\ script \in {"V2", "V3"}
    /\ pc = "loop"
    /\ exit_cause = "none"
    /\ is_open = TRUE
    /\ in_buf = <<>>
    /\ frame = <<>>
    /\ outstanding = 0
    /\ cycle = IdleCycle("none")

\* ser.in_waiting == 0: build the frame from command, write it, sleep.
Send(command) ==
    /\ pc = "loop"
    /\ in_buf = <<>>
    /\ outstanding < MaxOutstanding
    /\ frame' = BuildFrame(command)
    /\ outstanding' = outstanding + 1
    /\ cycle' = IdleCycle("send")
    /\ UNCHANGED <<script, pc, exit_cause, is_open, in_buf>>

SendRequest == Send(data_ascii)

\* else: read what waits, run the pipeline, publish or print the error, sleep.
ReadResponse ==
    /\ pc = "loop"
    /\ in_buf # <<>>
    /\ cycle' = ReadCycle(script, in_buf)
    /\ in_buf' = <<>>
    /\ outstanding' = 0
    /\ IF cycle'.error = "none" \/ Caught(cycle'.error)
       THEN pc' = "loop" /\ exit_cause' = "none"
       ELSE pc' = "finally" /\ exit_cause' = cycle'.error
    /\ UNCHANGED <<script, is_open, frame>>

\* redis_conn.set raises: the reading is decoded but not stored nor printed.
SinkFailure ==
    /\ pc = "loop"
    /\ in_buf # <<>>
    /\ script = "V3"
    /\ ReadCycle(script, in_buf).published
    /\ cycle' = [ReadCycle(script, in_buf) EXCEPT !.published = FALSE,
                                                  !.load_cell = <<>>]
    /\ in_buf' = <<>>
    /\ outstanding' = 0
    /\ pc' = "finally"
    /\ exit_cause' = "RedisError"
    /\ UNCHANGED <<script, is_open, frame>>

\* ser.write raises.
WriteFailure ==
    /\ pc = "loop"
    /\ in_buf = <<>>
    /\ pc' = "finally"
    /\ exit_cause' = "SerialException"
    /\ cycle' = IdleCycle("send")
    /\ UNCHANGED <<script, is_open, in_buf, frame, outstanding>>

\* ser.in_waiting or ser.read raises.
ReadFailure ==
    /\ pc = "loop"
    /\ pc' = "finally"
    /\ exit_cause' = "SerialException"
    /\ UNCHANGED <<script, is_open, in_buf, frame, outstanding,
                   cycle>>

\* The operator interrupts: except KeyboardInterrupt prints "Exiting...".
KeyboardInterrupt ==
    /\ pc = "loop"
    /\ pc' = "finally"
    /\ exit_cause' = "KeyboardInterrupt"
    /\ UNCHANGED <<script, is_open, in_buf, frame, outstanding,
                   cycle>>

\* The operator interrupts inside the response branch: the buffer was
\* read and the branch ran up to one of its points.
InterruptedRead ==
    /\ pc = "loop"
    /\ in_buf # <<>>
    /\ \E k \in Points(script, ReadCycle(script, in_buf)) :
        cycle' = InterruptedCycle(ReadCycle(script, in_buf), k)
    /\ in_buf' = <<>>
    /\ outstanding' = 0
    /\ pc' = "finally"
    /\ exit_cause' = "KeyboardInterrupt"
    /\ UNCHANGED <<script, is_open, frame>>

\* finally: ser.close()
Finally ==
    /\ pc = "finally"
    /\ is_open' = FALSE
    /\ pc' = "done"
    /\ UNCHANGED <<script, exit_cause, in_buf, frame, outstanding, cycle>>

\* The operator interrupts when the finally block is about to call
\* ser.close(): the script ends with KeyboardInterrupt and the link open.
InterruptedFinally ==
    /\ pc = "finally"
    /\ pc' = "done"
    /\ exit_cause' = "KeyboardInterrupt"
    /\ UNCHANGED <<script, is_open, in_buf, frame, outstanding, cycle>>

\* Bytes arrive from the device, asked for or not: a piece into the empty
\* buffer, or the next piece of a burst behind the bytes that wait.  Once
\* the loop is left the program no longer looks at the buffer.
DeviceSends ==
    /\ pc = "loop"
    /\ \E r \in Pieces :
        /\ \/ in_buf = <<>>
           \/ /\ in_buf \o r \in Pieces
              /\ Len(in_buf) + Len(r) <= MaxRx
        /\ in_buf' = in_buf \o r
    /\ UNCHANGED <<script, pc, exit_cause, is_open, frame, outstanding, cycle>>

Next ==
    \/ SendRequest
    \/ ReadResponse
    \/ SinkFailure
    \/ WriteFailure
    \/ ReadFailure
    \/ KeyboardInterrupt
    \/ InterruptedRead
    \/ Finally
    \/ InterruptedFinally
    \/ DeviceSends

Spec == Init /\ [][Next]_vars

---------------------------------------------------------------------------
(* Request frames for every command text of the fixed layout.              *)

CommandTexts ==
    { n \o SubAddress \o ServiceID \o m \o SRC \o vt \o a \o Bit_Position \o ne :
        n \in {<<48, 48>>, <<48, 49>>, <<57, 57>>},
        m \in {<<48, 49>>, <<48, 50>>},
        vt \in {<<67, 48>>, <<67, 49>>},
        a \in {<<48, 48, 48, 48>>, <<48, 48, 48, 50>>, <<70, 70, 70, 70>>,
               <<55, 70, 48, 49>>},
        ne \in {<<48, 48, 48, 49>>, <<48, 48, 48, 50>>} }

SendAny == \E command \in CommandTexts : Send(command)

SpecBcc == Init /\ [][SendAny]_vars

---------------------------------------------------------------------------
(* Properties.                                                             *)

Range(s) == {s[i] : i \in 1..Len(s)}

IsHexDigit(c) == c \in (48..57) \cup (65..70) \cup (97..102)

\* The XOR of the bytes of s, bit by bit: bit k of the result is the parity
\* of the number of bytes of s that have bit k set.
BitOf(b, k) == (b \div (2 ^ k)) % 2
ParityBit(s, k) == Cardinality({i \in 1..Len(s) : BitOf(s[i], k) = 1}) % 2
ParityXor(s) ==
    ParityBit(s, 0) + 2 * ParityBit(s, 1) + 4 * ParityBit(s, 2)
        + 8 * ParityBit(s, 3) + 16 * ParityBit(s, 4) + 32 * ParityBit(s, 5)
        + 64 * ParityBit(s, 6) + 128 * ParityBit(s, 7)

\* Ten times the displayed value, as an integer.
Tenths(display_value) ==
    IF display_value.neg
    THEN 0 - (10 * display_value.whole + display_value.tenths)
    ELSE 10 * display_value.whole + display_value.tenths

\* The base-16 value of four hex digits.
Hex4(d) ==
    4096 * DigitValue(d[1]) + 256 * DigitValue(d[2]) + 16 * DigitValue(d[3])
        + DigitValue(d[4])

\* C1: a request frame is never written while a response to an earlier one
\* may be outstanding: between two consecutive writes the driver has read
\* the link, so at most one frame is written since the last read.
C1_OneOutstanding == outstanding <= 1

\* C2: in both scripts every reading handed to the sink is the data
\* section's base-16 value u, two's-complement corrected over 16 bits and
\* then divided by 10: u/10 below 2^15, (u - 2^16)/10 from 2^15 up.
C2_SignedThenScaled ==
    (cycle.published /\ Len(cycle.data_section) = 4
        /\ \A c \in Range(cycle.data_section) : IsHexDigit(c))
    => Tenths(cycle.display_value)
         = (IF Hex4(cycle.data_section) < 32768
            THEN Hex4(cycle.data_section)
            ELSE Hex4(cycle.data_section) - 65536)

\* C3: the last byte of every request frame is the XOR of the bytes after
\* STX through ETX, STX excluded, so the XOR of everything after STX, the
\* BCC included, is 0; for every command text of the fixed layout.
C3_BccIsXor ==
    frame # <<>> =>
        /\ frame[1] = STX
        /\ frame[Len(frame) - 1] = ETX
        /\ frame[Len(frame)] = ParityXor(SubSeq(frame, 2, Len(frame) - 1))
        /\ ParityXor(SubSeq(frame, 2, Len(frame))) = 0

C3_Witness ==
    /\ frame # <<>>
    /\ SubSeq(frame, 2, Len(frame) - 2) # data_ascii
    /\ frame[Len(frame)] # 0

\* C4: no failure of the response pipeline ends the loop: after an
\* iteration whose pipeline failed on the bytes read, whatever the malformed
\* response, the driver is at the top of the loop with the link open.
C4_FrameErrorsRecoverable ==
    (cycle.branch = "read" /\ cycle.error # "none")
    => (exit_cause \in {"none", "KeyboardInterrupt", "SerialException"}
          /\ (exit_cause = "none" => (pc = "loop" /\ is_open)))

\* C5: no terminal state has the link open, whatever ended the loop.
C5_ClosedOnExit == pc = "done" => ~is_open


\* C6 as claimed: validate_and_clean succeeds on its own output and returns
\* it unchanged, both for the value the code returns and for the bytes
\* between STX and the first ETX, both excluded.
C6_IdempotentOnBody ==
    cycle.cleaned_response # <<>> =>
        /\ validate_and_clean_response(cycle.cleaned_response)
             = Ok(cycle.cleaned_response)
        /\ validate_and_clean_response(frame_body(cycle.cleaned_response))
             = Ok(frame_body(cycle.cleaned_response))

\* C6 as amended: validate_and_clean_response is idempotent on the value it
\* returns, the frame from STX through the first ETX, both included; on the
\* bytes between them it fails.
C6_IdempotentOnFrame ==
    (cycle.branch = "read"
        /\ validate_and_clean_response(cycle.raw_response).ok)
    => LET out == validate_and_clean_response(cycle.raw_response).value
       IN  /\ validate_and_clean_response(out) = Ok(out)
           /\ ~validate_and_clean_response(frame_body(out)).ok

\* A response that was accepted and had something after its first ETX.
C6_Witness ==
    /\ cycle.cleaned_response # <<>>
    /\ cycle.cleaned_response # cycle.raw_response

NothingDecoded ==
    /\ cycle.cleaned_response = <<>>
    /\ cycle.data_section = <<>>
    /\ ~cycle.parsed
    /\ ~cycle.published
    /\ cycle.load_cell = <<>>

\* C7: a response whose first character is not STX (the empty one too)
\* fails with MissingSTX, one that starts with STX and holds no ETX fails
\* with MissingETX, and with no other error; only an iteration that the
\* operator interrupted before the validation raised has no error.  Neither
\* yields a data section nor a reading, interrupted or not.
C7_MissingDelimiters ==
    cycle.branch = "read" =>
        /\ (cycle.raw_response = <<>> \/ cycle.raw_response[1] # STX)
             => /\ NothingDecoded
                /\ \/ cycle.error = "MissingSTX"
                   \/ cycle.interrupted /\ cycle.error = "none"
        /\ (cycle.raw_response # <<>> /\ cycle.raw_response[1] = STX
              /\ ETX \notin Range(cycle.raw_response))
             => /\ NothingDecoded
                /\ \/ cycle.error = "MissingETX"
                   \/ cycle.interrupted /\ cycle.error = "none"

\* A response with neither STX nor ETX was read.
C7_Witness ==
    /\ cycle.branch = "read"
    /\ Len(cycle.raw_response) > 1
    /\ cycle.raw_response[1] # STX
    /\ ETX \notin Range(cycle.raw_response)
    /\ cycle.error = "MissingSTX"

\* C8: a response with fewer than 16 characters between STX and the first
\* ETX fails with FrameTooShort and with no other error (only an iteration
\* that the operator interrupted before the extraction raised has no error)
\* and is never parsed as hex, interrupted or not; the parse is reached only
\* with a body of 16 characters or more.
C8_ShortNeverParsed ==
    cycle.branch = "read" =>
        /\ (cycle.raw_response # <<>> /\ cycle.raw_response[1] = STX
              /\ ETX \in Range(cycle.raw_response)
              /\ IndexOf(cycle.raw_response, ETX) - 2 < 16)
             => /\ ~cycle.parsed
                /\ ~cycle.published
                /\ cycle.data_section = <<>>
                /\ \/ cycle.error = "FrameTooShort"
                   \/ cycle.interrupted /\ cycle.error = "none"
        /\ cycle.parsed => Len(cycle.cleaned_response) - 2 >= 16

\* A body of 15 characters was refused.
C8_Witness ==
    /\ cycle.error = "FrameTooShort"
    /\ Len(cycle.cleaned_response) = 17

\* C9 as claimed: every frame written is STX, a command text of exactly 19
\* characters, ETX and one BCC byte.
C9_Layout19 ==
    frame # <<>> =>
        /\ frame[1] = STX
        /\ Len(frame) = 1 + 19 + 1 + 1
        /\ IndexOf(frame, ETX) = 1 + 19 + 1

\* C9 as amended: every frame written is STX, the command text of exactly
\* 21 characters Node(2) SubAddress(2) ServiceID(1) MRC(2) SRC(2)
\* VariableType(2) Address(4) BitPosition(2) ElementCount(4), ETX and one
\* BCC byte, the same 24 bytes on every send.
C9_Layout21 ==
    frame # <<>> =>
        /\ Len(frame) = 1 + 21 + 1 + 1
        /\ frame = <<2, 48, 49, 48, 48, 48, 48, 49, 48, 49, 67, 48, 48, 48,
                     48, 50, 48, 48, 48, 48, 48, 49, 3, 66>>
        /\ SubSeq(frame, 2, 3) = Node
        /\ SubSeq(frame, 4, 5) = SubAddress
        /\ SubSeq(frame, 6, 6) = ServiceID
        /\ SubSeq(frame, 7, 8) = MRC
        /\ SubSeq(frame, 9, 10) = SRC
        /\ SubSeq(frame, 11, 12) = Variable_Type
        /\ SubSeq(frame, 13, 16) = Address
        /\ SubSeq(frame, 17, 18) = Bit_Position
        /\ SubSeq(frame, 19, 22) = Number_of_Elements

\* The frame was written twice in a row.
C9_Witness == frame # <<>> /\ outstanding = 2

\* C10: every reading OmronV3 publishes is a signed 16-bit value, and its
\* data section holds hex digits only, whatever the data section's length.
C10_SixteenBit ==
    (script = "V3" /\ cycle.published) =>
        /\ cycle.decoded_value \in (0 - 32768)..32767
        /\ \A c \in Range(cycle.data_section) : IsHexDigit(c)

=============================================================================
